---- MODULE Spec2Model ----
(***************************************************************************)
(* Model of app.py, the Streamlit "Daily Expenses Dashboard".              *)
(*                                                                         *)
(* The persisted state is the file expenses.csv.  Every user interaction   *)
(* reruns the script top to bottom in the session that made it; a run's    *)
(* local names (df, df_all, df_filtered, ...) are fresh on every rerun.    *)
(* File accesses (os.path.exists, read_csv, to_csv) are the points where   *)
(* runs of different sessions can interleave, so each is one step.         *)
(*                                                                         *)
(* Representation.                                                         *)
(*  - A CSV field is a cell [k, s, n]: empty, text, number text, or an ISO *)
(*    date text (held as the digits yyyymmdd).  An in-memory value is a    *)
(*    plain date record / string / number, so that writing and reading     *)
(*    are real conversions.                                                *)
(*  - Amounts are floats in the program; the model uses integers, with     *)
(*    the value NaN standing for float NaN.                                *)
(*  - The file found on disk at start-up is an input: it may be missing,   *)
(*    or hold cells the program itself never writes (unparsable or empty   *)
(*    amounts, empty dates).  Date cells are empty or well-formed and      *)
(*    category/notes cells are empty or text.                              *)
(*  - A read_csv or to_csv call is one step: a reader never sees a file    *)
(*    that is half written.                                                *)
(*  - Category and notes texts that read_csv would take for numbers        *)
(*    ("007") are not among the inputs.                                    *)
(*  - Chart drawing (lines 153-175, pages 2-3 of the PDF) reads the        *)
(*    filtered table and writes nothing the model keeps.                   *)
(***************************************************************************)
EXTENDS Integers, Sequences, FiniteSets, TLC

VARIABLES file,    \* contents of expenses.csv
          sess,    \* per session: position in the script and its local names
          added,   \* history: the rows saved by the add form, in save order
          file0    \* history: the file as found at start-up

vars == <<file, sess, added, file0>>

(* ------------------------------ bounds -------------------------------- *)
MaxAdds == 2

(* ----------------------------- constants ------------------------------ *)
Sessions == {"tab1", "tab2"}
Main == "tab1"

COLUMNS == <<"date", "category", "amount", "notes">>
HELPERS == {"year", "month"}

MonthNames == <<"January", "February", "March", "April", "May", "June", "July",
                "August", "September", "October", "November", "December">>

NaN == -999999
NaT == [y |-> 0, m |-> 0, d |-> 0]

\* text that read_csv takes for a missing value (pandas' default na_values)
NaValues == {"", "NA", "N/A", "n/a", "NaN", "nan", "null", "NULL", "None", "<NA>", "#N/A"}

\* strings for which cat.strip() is empty
BlankStrings == {"", " ", "   "}

(* ------------------------------- cells --------------------------------- *)
EmptyCell == [k |-> "empty", s |-> "", n |-> 0]
NaCell == [k |-> "nan", s |-> "", n |-> 0]
TxtCell(s) == [k |-> "txt", s |-> s, n |-> 0]
NumCell(n) == [k |-> "num", s |-> "", n |-> n]
DateCell(iso) == [k |-> "date", s |-> "", n |-> iso]

FormatDate(d) == d.y * 10000 + d.m * 100 + d.d
ParseDate(iso) == [y |-> iso \div 10000, m |-> (iso \div 100) % 100, d |-> iso % 100]

Range(f) == {f[i] : i \in DOMAIN f}

(* --------------------------- data frames ------------------------------- *)
EmptyDF == [cols |-> COLUMNS, rows |-> <<>>]
IsEmpty(df) == Len(df.rows) = 0 \/ Len(df.cols) = 0

MissingFile == [exists |-> FALSE, cols |-> <<>>, rows |-> <<>>]

\* DataFrame.to_csv(index=False): one header line, one line per row
WriteValue(c, v) ==
    CASE c = "date" -> IF v = NaT THEN EmptyCell ELSE DateCell(FormatDate(v))
      [] c = "amount" -> IF v = NaN THEN EmptyCell ELSE NumCell(v)
      [] c \in HELPERS -> NumCell(v)
      [] OTHER -> IF v = "" THEN EmptyCell ELSE TxtCell(v)

to_csv(df) ==
    [exists |-> TRUE,
     cols |-> df.cols,
     rows |-> [i \in 1..Len(df.rows) |->
                 [c \in Range(df.cols) |-> WriteValue(c, df.rows[i][c])]]]

\* pd.read_csv: empty fields and the NA spellings become missing values
ReadCell(c) ==
    IF c.k = "empty" \/ (c.k = "txt" /\ c.s \in NaValues) THEN NaCell ELSE c

read_csv(f) ==
    [cols |-> f.cols,
     rows |-> [i \in 1..Len(f.rows) |->
                 [c \in Range(f.cols) |-> ReadCell(f.rows[i][c])]]]

\* pd.to_datetime(...).dt.date
ToDate(raw) == IF raw.k = "nan" THEN NaT ELSE ParseDate(raw.n)

\* Series.astype(str): a missing value becomes the text "nan"
AsStr(raw) == IF raw.k = "nan" THEN "nan" ELSE raw.s

\* pd.to_numeric(errors="coerce")
ToNumeric(raw) == IF raw.k = "num" THEN raw.n ELSE NaN

\* the same without .fillna(0.0)
FillNa_skipped(x) == x

FillNa(x) == IF x = NaN THEN 0 ELSE x

CoerceRow(raw) ==
    [c \in DOMAIN raw |->
        CASE c = "date" -> ToDate(raw[c])
          [] c = "amount" -> FillNa(ToNumeric(raw[c]))
          [] OTHER -> AsStr(raw[c])]

\* the body of load_data after init_data
LoadFrom(f) ==
    LET df == read_csv(f)
    IN IF ~IsEmpty(df)
       THEN [cols |-> df.cols, rows |-> [i \in 1..Len(df.rows) |-> CoerceRow(df.rows[i])]]
       ELSE df

\* what init_data writes when the file is missing (lines 18-19)
EmptyTableFile == to_csv(EmptyDF)

(* ------------------------- filtering (lines 34-52) --------------------- *)
month_name_to_num(name) ==
    IF name = "All year" THEN 0
    ELSE IF \E i \in 1..12 : MonthNames[i] = name
         THEN CHOOSE i \in 1..12 : MonthNames[i] = name
         ELSE 0

\* df2["year"] = ...dt.year ; df2["month"] = ...dt.month
WithYearMonth(df) ==
    [cols |-> df.cols \o <<"year", "month">>,
     rows |-> [i \in 1..Len(df.rows) |->
                 [c \in DOMAIN df.rows[i] \cup HELPERS |->
                     CASE c = "year" -> df.rows[i]["date"].y
                       [] c = "month" -> df.rows[i]["date"].m
                       [] OTHER -> df.rows[i][c]]]]

YearIs(y, r) == r["year"] = y
MonthIs(m, r) == r["month"] = m
CategoryIn(cs, r) == r["category"] \in cs

\* df2 = df2[df2["year"] == year]
FilterYear(df2, year) ==
    [df2 EXCEPT !.rows = SelectSeq(df2.rows, LAMBDA r : YearIs(year, r))]

\* if m != 0: df2 = df2[df2["month"] == m]
FilterMonth(df2, m) ==
    IF m # 0
    THEN [df2 EXCEPT !.rows = SelectSeq(df2.rows, LAMBDA r : MonthIs(m, r))]
    ELSE df2

\* a filter that applies isin even to the empty selection
FilterCategories_always(df2, categories) ==
    [df2 EXCEPT !.rows = SelectSeq(df2.rows, LAMBDA r : CategoryIn(categories, r))]

\* if categories: df2 = df2[df2["category"].isin(categories)]
FilterCategories(df2, categories) ==
    IF categories # {}
    THEN [df2 EXCEPT !.rows = SelectSeq(df2.rows, LAMBDA r : CategoryIn(categories, r))]
    ELSE df2

\* the helper columns left in the result
DropHelperColumns_kept(df2) == df2

\* df2.drop(columns=["year","month"], errors="ignore")
DropHelperColumns(df2) ==
    [cols |-> SelectSeq(df2.cols, LAMBDA c : c \notin HELPERS),
     rows |-> [i \in 1..Len(df2.rows) |->
                 [c \in DOMAIN df2.rows[i] \ HELPERS |-> df2.rows[i][c]]]]

\* the helper columns added to the caller's table instead of a copy
ArgAfterFilter_inplace(df) == WithYearMonth(df)

\* the caller's table after the call: filter_df works on df.copy()
ArgAfterFilter(df) == df

\* filter_df: ret is the returned table, arg the table passed in, after the call
filter_df(df, year, month_opt, categories) ==
    IF IsEmpty(df)
    THEN [ret |-> df, arg |-> df]
    ELSE LET a == FilterYear(WithYearMonth(df), year)
             b == FilterMonth(a, month_name_to_num(month_opt))
             c == FilterCategories(b, categories)
         IN [ret |-> DropHelperColumns(c), arg |-> ArgAfterFilter(df)]

(* ----------------------- aggregation (lines 54-61) --------------------- *)
RECURSIVE SumSeq(_)
SumSeq(q) == IF q = <<>> THEN 0 ELSE Head(q) + SumSeq(Tail(q))

RECURSIVE SumOver(_, _)
SumOver(f, S) ==
    IF S = {} THEN 0
    ELSE LET x == CHOOSE x \in S : TRUE IN f[x] + SumOver(f, S \ {x})

MaxOver(f, S) == CHOOSE v \in {f[x] : x \in S} : \A x \in S : f[x] <= v

Column(df, c) == [i \in 1..Len(df.rows) |-> df.rows[i][c]]

\* df.groupby("date")["amount"].sum(): groups keyed by the dates present,
\* rows with a missing date left out
GroupKeys(df, c) == Range(Column(df, c)) \ {NaT}

GroupSum(df, key, k) ==
    SumSeq(Column([df EXCEPT !.rows = SelectSeq(df.rows, LAMBDA r : r[key] = k)], "amount"))

Zero == [num |-> 0, den |-> 1]
Float(n) == [num |-> n, den |-> 1]

\* the mean over rows instead of over days
MeanByDay_rows(by_day, total, nrows) == [num |-> total, den |-> nrows]

\* by_day.mean()
MeanByDay(by_day, total, nrows) ==
    [num |-> SumOver(by_day, DOMAIN by_day), den |-> Cardinality(DOMAIN by_day)]

compute_kpis(df) ==
    IF IsEmpty(df)
    THEN [total |-> Zero, avg_day |-> Zero, max_day |-> Zero, count |-> Zero]
    ELSE LET total == SumSeq(Column(df, "amount"))
             by_day == [k \in GroupKeys(df, "date") |-> GroupSum(df, "date", k)]
             avg_day == IF DOMAIN by_day # {} THEN MeanByDay(by_day, total, Len(df.rows)) ELSE Zero
             max_day == IF DOMAIN by_day # {} THEN Float(MaxOver(by_day, DOMAIN by_day)) ELSE Zero
         IN [total |-> Float(total), avg_day |-> avg_day, max_day |-> max_day,
             count |-> Float(Len(df.rows))]

(* ------------------------ rendering and export ------------------------- *)
\* f"{x:,.2f}": the value in hundredths, rounded
Fmt2(x) == (200 * x.num + x.den) \div (2 * x.den)

\* int(count_rec)
ToInt(x) == x.num \div x.den

\* the four st.metric calls (lines 146-149)
Metrics(k) ==
    [total |-> Fmt2(k.total), avg_day |-> Fmt2(k.avg_day), max_day |-> Fmt2(k.max_day),
     records |-> ToInt(k.count)]

\* page 1 of generate_pdf (lines 69-76)
generate_pdf(df_filtered, year, month_opt, total, avg_day, max_day) ==
    [title |-> IF month_opt # "All year" THEN <<month_opt, year>> ELSE <<"Year", year>>,
     total |-> Fmt2(total), avg_day |-> Fmt2(avg_day), max_day |-> Fmt2(max_day),
     records |-> Len(df_filtered.rows)]

(* ------------------------------ inputs --------------------------------- *)
D1 == [y |-> 2024, m |-> 1, d |-> 5]
D2 == [y |-> 2024, m |-> 2, d |-> 10]
D3 == [y |-> 2025, m |-> 1, d |-> 5]

Years == {2024, 2025}
MonthOpts == {"All year", "January", "February"}

\* values of the add form's widgets: date_input, text_input, number_input
\* (min_value=0.0), text_input
Form(d, cat, amt, note) == [d |-> d, cat |-> cat, amt |-> amt, note |-> note]
NoForm == Form(NaT, "", 0, "")
FormInputs ==
    { Form(D1, "Food", 5, "lunch"),
      Form(D1, "Rent", 7, ""),
      Form(D2, "   ", 3, "NA"),
      Form(D2, "Food", 2, ""),
      Form(D3, "", 0, "   ") }

FileRow(d, c, a, n) == [date |-> d, category |-> c, amount |-> a, notes |-> n]
FileOf(rows) == [exists |-> TRUE, cols |-> COLUMNS, rows |-> rows]

\* expenses.csv as it may be found when the app starts
InitFiles ==
    { MissingFile,
      FileOf(<<>>),
      FileOf(<<FileRow(DateCell(20240105), TxtCell("Food"), TxtCell("abc"), EmptyCell),
               FileRow(DateCell(20250105), TxtCell("NA"), EmptyCell, TxtCell("x")),
               FileRow(DateCell(20240105), TxtCell("Food"), NumCell(6), TxtCell("tea"))>>),
      FileOf(<<FileRow(DateCell(20240210), TxtCell("Rent"), NumCell(7), TxtCell("gas")),
               FileRow(EmptyCell, EmptyCell, EmptyCell, TxtCell("x"))>>) }

(* --------------------------- session state ----------------------------- *)
NoPdf == [title |-> <<"", 0>>, total |-> 0, avg_day |-> 0, max_day |-> 0, records |-> 0]

\* a run's names before the script has assigned them
Fresh ==
    [pc |-> "idle", year |-> 0, month_opt |-> "", submitted |-> FALSE, form |-> NoForm,
     df |-> EmptyDF, df_all |-> EmptyDF, categories |-> {}, df_filtered |-> EmptyDF,
     kpis |-> compute_kpis(EmptyDF), screen |-> Metrics(compute_kpis(EmptyDF)),
     csv_bytes |-> MissingFile, pdf_bytes |-> NoPdf, fileAtStart |-> MissingFile]

Init ==
    /\ file \in InitFiles
    /\ file0 = file
    /\ sess = [s \in Sessions |-> Fresh]
    /\ added = <<>>

(* ------------------------------ actions -------------------------------- *)
\* A widget interaction reruns the script: the sidebar and the form are
\* evaluated (lines 115-130).
Rerun(s) ==
    /\ sess[s].pc \in {"idle", "done"}
    /\ \E y \in Years, mo \in MonthOpts, sub \in BOOLEAN :
         /\ sub => Len(added) < MaxAdds
         /\ \E f \in (IF sub THEN FormInputs ELSE {NoForm}) :
              sess' = [sess EXCEPT ![s] =
                         [Fresh EXCEPT !.pc = IF sub THEN "h_exists" ELSE "m_exists",
                                       !.year = y, !.month_opt = mo,
                                       !.submitted = sub, !.form = f,
                                       !.fileAtStart = file]]
    /\ UNCHANGED <<file, added, file0>>

\* init_data writing the empty table whether or not the file exists
InitDataNext_always(prefix, exists) == prefix \o "create"

\* init_data, line 17: os.path.exists
InitDataNext(prefix, exists) == IF exists THEN prefix \o "read" ELSE prefix \o "create"

InitDataCheck(s) ==
    /\ sess[s].pc \in {"h_exists", "m_exists"}
    /\ sess' = [sess EXCEPT ![s].pc =
                  InitDataNext(IF sess[s].pc = "h_exists" THEN "h_" ELSE "m_", file.exists)]
    /\ UNCHANGED <<file, added, file0>>

\* init_data, lines 18-19: write the empty table
InitDataCreate(s) ==
    /\ sess[s].pc \in {"h_create", "m_create"}
    /\ file' = EmptyTableFile
    /\ sess' = [sess EXCEPT ![s].pc = IF sess[s].pc = "h_create" THEN "h_read" ELSE "m_read"]
    /\ UNCHANGED <<added, file0>>

\* line 131: df = load_data(), after its init_data
HandlerLoad(s) ==
    /\ sess[s].pc = "h_read"
    /\ sess' = [sess EXCEPT ![s].pc = "h_save", ![s].df = LoadFrom(file)]
    /\ UNCHANGED <<file, added, file0>>

\* line 132
NewRow(f) ==
    [date |-> f.d,
     category |-> IF f.cat \notin BlankStrings THEN f.cat ELSE "Uncategorized",
     amount |-> f.amt,
     notes |-> f.note]

\* the new row put first
Concat_prepend(df, row) == [cols |-> df.cols, rows |-> <<row>> \o df.rows]

\* the new row alone, the loaded rows forgotten
Concat_replace(df, row) == [cols |-> df.cols, rows |-> <<row>>]

\* line 133: pd.concat([df, pd.DataFrame([new_row])], ignore_index=True)
Concat(df, row) == [cols |-> df.cols, rows |-> Append(df.rows, row)]

\* lines 132-135: build the row, append it, save_data
HandlerSave(s) ==
    /\ sess[s].pc = "h_save"
    /\ LET df == Concat(sess[s].df, NewRow(sess[s].form))
       IN /\ file' = to_csv(df)
          /\ sess' = [sess EXCEPT ![s].pc = "m_exists", ![s].df = df]
    /\ added' = Append(added, [s |-> s, form |-> sess[s].form])
    /\ UNCHANGED file0

\* line 138
CatsAll(df_all) == IF ~IsEmpty(df_all) THEN Range(Column(df_all, "category")) ELSE {}

\* lines 137-188 with the table read from f: load, category widget, filter,
\* KPIs, metrics, exports
RenderFrom(s, f) ==
    /\ sess[s].pc = "m_read"
    /\ LET loaded == LoadFrom(f)
       IN \E categories \in SUBSET CatsAll(loaded) :
            LET r == filter_df(loaded, sess[s].year, sess[s].month_opt, categories)
                k == compute_kpis(r.ret)
            IN sess' = [sess EXCEPT ![s] =
                          [@ EXCEPT !.pc = "done",
                                    !.df_all = r.arg,
                                    !.categories = categories,
                                    !.df_filtered = r.ret,
                                    !.kpis = k,
                                    !.screen = Metrics(k),
                                    !.csv_bytes = to_csv(r.ret),
                                    !.pdf_bytes = generate_pdf(r.ret, sess[s].year,
                                                     sess[s].month_opt, k.total,
                                                     k.avg_day, k.max_day)]]
    /\ UNCHANGED <<file, added, file0>>

\* the table taken from the file as it was when the run began
MainRender_stale(s) == RenderFrom(s, sess[s].fileAtStart)

\* line 137 reads expenses.csv as it is now
MainRender(s) == RenderFrom(s, file)

\* one session: every run goes from the top of the script to the end
Next ==
    \/ Rerun(Main)
    \/ InitDataCheck(Main)
    \/ InitDataCreate(Main)
    \/ HandlerLoad(Main)
    \/ HandlerSave(Main)
    \/ MainRender(Main)

Spec == Init /\ [][Next]_vars

\* two sessions (browser tabs), each submitting the add form once; their
\* runs interleave at the file accesses
SubmitOnce(s) ==
    /\ sess[s].pc = "idle"
    /\ Rerun(s)
    /\ sess'[s].submitted

NextConc ==
    \E s \in Sessions :
        \/ SubmitOnce(s)
        \/ InitDataCheck(s)
        \/ InitDataCreate(s)
        \/ HandlerLoad(s)
        \/ HandlerSave(s)

SpecConc == Init /\ [][NextConc]_vars

TypeOK ==
    /\ file.exists \in BOOLEAN
    /\ \A s \in Sessions : sess[s].pc \in
          {"idle", "h_exists", "h_create", "h_read", "h_save",
           "m_exists", "m_create", "m_read", "done"}

(* ------------------------------ properties ----------------------------- *)
\* the persisted table: the rows load_data reads from a file
Table(f) == LoadFrom(f).rows

AfterSave == {"m_exists", "m_create", "m_read", "done"}

\* C1: a submit appends exactly one row to the persisted table: the save
\* leaves n+1 rows, the n earlier rows of the table are unchanged and in the
\* same order, the new row is last; and after k submits the file holds its
\* start-up rows followed by exactly k rows, in submission order.
C1_SubmitAppendsOneRow ==
    /\ [][\A s \in Sessions :
            (sess[s].pc = "h_save" /\ sess'[s].pc = "m_exists") =>
               LET n == Len(file.rows)
                   f == sess[s].form
               IN /\ Len(file'.rows) = n + 1
                  /\ \A i \in 1..n : Table(file')[i] = Table(file)[i]
                  /\ file'.rows[n + 1]["date"] = DateCell(FormatDate(f.d))
                  /\ file'.rows[n + 1]["amount"] = NumCell(f.amt)
                  /\ Table(file')[n + 1]["date"] = f.d
                  /\ Table(file')[n + 1]["amount"] = f.amt]_vars
    /\ [](LET base == Len(file0.rows)
          IN /\ Len(file.rows) = base + Len(added)
             /\ \A i \in 1..Len(added) :
                   /\ Table(file)[base + i]["date"] = added[i].form.d
                   /\ Table(file)[base + i]["amount"] = added[i].form.amt)

C1_Witness ==
    /\ Len(added) = 2
    /\ Len(file0.rows) > 0
    /\ added[1].form.d # added[2].form.d
    /\ sess[Main].pc = "m_exists"

\* C2: every row of a table returned by load_data, and of the table the add
\* handler saves, has a numeric amount: the number in the file when the
\* field parses as one, 0 when it does not parse or is empty.
C2_AmountsNumeric ==
    \A s \in Sessions :
      \A T \in {sess[s].df, sess[s].df_all} :
        \A i \in 1..Len(T.rows) :
           /\ T.rows[i]["amount"] \in Int
           /\ T.rows[i]["amount"] # NaN
           /\ T.rows[i]["amount"] =
                 IF file.rows[i]["amount"].k = "num" THEN file.rows[i]["amount"].n ELSE 0

C2_Witness ==
    /\ sess[Main].pc = "done"
    /\ \E i, j, l \in 1..Len(file.rows) :
          /\ file.rows[i]["amount"].k = "txt"
          /\ file.rows[j]["amount"].k = "empty"
          /\ file.rows[l]["amount"].k = "num"
          /\ sess[Main].df_all.rows[i]["amount"] = 0
          /\ sess[Main].df_all.rows[j]["amount"] = 0
          /\ sess[Main].df_all.rows[l]["amount"] > 0

\* C3: when expenses.csv is missing, load_data creates it as an empty table
\* with the four columns date, category, amount, notes and returns an empty
\* table; when the file exists, init_data leaves it as it is.
C3_MissingFileCreated ==
    [][\A s \in Sessions :
         /\ (sess[s].pc \in {"h_create", "m_create"} /\ sess'[s].pc # sess[s].pc) =>
               file' = [exists |-> TRUE,
                        cols |-> <<"date", "category", "amount", "notes">>,
                        rows |-> <<>>]
         /\ (~sess[s].fileAtStart.exists /\ sess[s].pc = "h_read" /\ sess'[s].pc = "h_save") =>
               sess'[s].df = [cols |-> <<"date", "category", "amount", "notes">>, rows |-> <<>>]
         /\ (~sess[s].fileAtStart.exists /\ ~sess[s].submitted
               /\ sess[s].pc = "m_read" /\ sess'[s].pc = "done") =>
               sess'[s].df_all = [cols |-> <<"date", "category", "amount", "notes">>, rows |-> <<>>]
         /\ (file.exists /\ sess[s].pc \in {"h_exists", "h_create", "m_exists", "m_create"}
               /\ sess'[s].pc # sess[s].pc) =>
               file' = file]_vars

C3_Witness ==
    /\ ~sess[Main].fileAtStart.exists
    /\ sess[Main].pc = "h_save"
    /\ file.exists /\ file.rows = <<>> /\ Len(file.cols) = 4
    /\ sess[Main].df.rows = <<>>

\* C4: the table filter_df returns holds exactly the rows of the table it is
\* given, in their order, whose date is in the selected year, whose month is
\* the selected month unless "All year" is selected, and whose category is
\* among the selected categories unless none is selected.
C4_FilterExact ==
    \A s \in Sessions :
      sess[s].pc = "done" =>
        LET Keep(r) ==
              /\ r["date"].y = sess[s].year
              /\ \/ sess[s].month_opt = "All year"
                 \/ MonthNames[r["date"].m] = sess[s].month_opt
              /\ \/ sess[s].categories = {}
                 \/ r["category"] \in sess[s].categories
        IN /\ sess[s].df_filtered.rows = SelectSeq(sess[s].df_all.rows, Keep)
           /\ \A i \in 1..Len(sess[s].df_filtered.rows) :
                 DOMAIN sess[s].df_filtered.rows[i] = DOMAIN sess[s].df_all.rows[1]

C4_Witness ==
    /\ sess[Main].pc = "done"
    /\ sess[Main].month_opt # "All year"
    /\ sess[Main].categories # {}
    /\ Len(sess[Main].df_filtered.rows) = 1
    /\ Len(sess[Main].df_all.rows) = 4
    /\ \E i \in 1..4 : /\ sess[Main].df_all.rows[i]["date"].y = sess[Main].year
                       /\ sess[Main].df_all.rows[i]["date"].m # month_name_to_num(sess[Main].month_opt)
    /\ \E i \in 1..4 : /\ sess[Main].df_all.rows[i]["date"].y = sess[Main].year
                       /\ sess[Main].df_all.rows[i]["date"].m = month_name_to_num(sess[Main].month_opt)
                       /\ sess[Main].df_all.rows[i]["category"] \notin sess[Main].categories

\* C5: on a non-empty table compute_kpis returns the sum of all amounts, the
\* largest per-date sum, the total divided by the number of distinct dates,
\* and the number of rows; on an empty table it returns 0 four times.
C5_Kpis ==
    \A s \in Sessions :
      sess[s].pc = "done" =>
        LET T == sess[s].df_filtered.rows
            k == sess[s].kpis
            days == {T[i]["date"] : i \in 1..Len(T)}
            RECURSIVE AmountIn(_)
            AmountIn(I) ==
                IF I = {} THEN 0
                ELSE LET i == CHOOSE i \in I : TRUE IN T[i]["amount"] + AmountIn(I \ {i})
            On(d) == AmountIn({i \in 1..Len(T) : T[i]["date"] = d})
        IN IF Len(T) = 0
           THEN /\ k.total.num = 0 /\ k.avg_day.num = 0
                /\ k.max_day.num = 0 /\ k.count.num = 0
           ELSE /\ k.total.den = 1 /\ k.total.num = AmountIn(1..Len(T))
                /\ k.max_day.den = 1
                /\ \E d \in days : On(d) = k.max_day.num
                /\ \A d \in days : On(d) <= k.max_day.num
                /\ k.avg_day.num * Cardinality(days) = k.total.num * k.avg_day.den
                /\ k.count.den = 1 /\ k.count.num = Len(T)

C5_Witness ==
    /\ sess[Main].pc = "done"
    /\ Len(sess[Main].df_filtered.rows) = 3
    /\ sess[Main].kpis.avg_day.den = 2
    /\ sess[Main].kpis.max_day.num = 12
    /\ sess[Main].kpis.total.num = 19

\* C6: a run loads the table it renders after the form has been processed:
\* the table of a run is the file's table at the start of the run followed,
\* when the form was submitted, by the new row, and a new row that matches
\* the filters is in the filtered table and in the KPIs of that same run.
C6_RenderAfterSave ==
    \A s \in Sessions :
      sess[s].pc = "done" =>
        LET old == Table(sess[s].fileAtStart)
            all == sess[s].df_all.rows
            flt == sess[s].df_filtered.rows
            f == sess[s].form
        IN /\ Len(all) = Len(old) + (IF sess[s].submitted THEN 1 ELSE 0)
           /\ \A i \in 1..Len(old) : all[i] = old[i]
           /\ all = Table(file)
           /\ sess[s].submitted =>
                LET r == all[Len(all)]
                IN /\ r["date"] = f.d /\ r["amount"] = f.amt
                   /\ Len(file.rows) = Len(sess[s].fileAtStart.rows) + 1
                   /\ ( /\ f.d.y = sess[s].year
                        /\ sess[s].month_opt \in {"All year", MonthNames[f.d.m]}
                        /\ (sess[s].categories = {} \/ r["category"] \in sess[s].categories) )
                      => /\ Len(flt) >= 1
                         /\ flt[Len(flt)] = r
                         /\ sess[s].kpis.total.num >= f.amt
                         /\ sess[s].screen.records = Len(flt)

C6_Witness ==
    /\ sess[Main].pc = "done"
    /\ sess[Main].submitted
    /\ Len(sess[Main].fileAtStart.rows) = 2
    /\ Len(sess[Main].df_filtered.rows) = 2
    /\ sess[Main].df_filtered.rows[2]["date"] = sess[Main].form.d
    /\ sess[Main].form.amt > 0
    /\ sess[Main].categories # {}

\* C7: the exports and the screen of one run describe the same filtered
\* table: the CSV has exactly the columns date, category, amount, notes and
\* exactly the rows of the filtered table, and the PDF's total, daily
\* average, max day and record count are the ones on screen.
C7_ExportsAgree ==
    \A s \in Sessions :
      sess[s].pc = "done" =>
        LET csv == sess[s].csv_bytes
            flt == sess[s].df_filtered.rows
        IN /\ csv.exists
           /\ csv.cols = <<"date", "category", "amount", "notes">>
           /\ Len(csv.rows) = Len(flt)
           /\ \A i \in 1..Len(flt) :
                 /\ DOMAIN csv.rows[i] = {"date", "category", "amount", "notes"}
                 /\ DOMAIN flt[i] = {"date", "category", "amount", "notes"}
                 /\ CoerceRow([c \in DOMAIN csv.rows[i] |-> ReadCell(csv.rows[i][c])]) = flt[i]
           /\ sess[s].pdf_bytes.total = sess[s].screen.total
           /\ sess[s].pdf_bytes.avg_day = sess[s].screen.avg_day
           /\ sess[s].pdf_bytes.max_day = sess[s].screen.max_day
           /\ sess[s].pdf_bytes.records = sess[s].screen.records

C7_Witness ==
    /\ sess[Main].pc = "done"
    /\ Len(sess[Main].csv_bytes.rows) = 2
    /\ Len(sess[Main].df_all.rows) = 4
    /\ sess[Main].pdf_bytes.records = 2
    /\ sess[Main].screen.total > sess[Main].screen.max_day
    /\ sess[Main].screen.avg_day > 0

\* C8: a row added through the form with date d, category c ("Uncategorized"
\* when c is blank), amount a and notes n is returned by every later
\* load_data with exactly those four values, the empty notes included.
C8_FieldsRoundTrip ==
    \A s \in Sessions :
      sess[s].pc = "done" =>
        \A i \in 1..Len(added) :
          LET f == added[i].form
              r == sess[s].df_all.rows[Len(file0.rows) + i]
          IN /\ r["date"] = f.d
             /\ r["category"] = (IF f.cat \in BlankStrings THEN "Uncategorized" ELSE f.cat)
             /\ r["amount"] = f.amt
             /\ r["notes"] = f.note

\* C9: when two sessions have each submitted the add form, the file holds
\* both added rows: its row count is the previous count + 2.
C9_NoLostAdd ==
    (\A s \in Sessions : sess[s].pc \in AfterSave) =>
        Len(file.rows) = Len(file0.rows) + 2

\* C9 as amended: when two sessions have each submitted the add form, the
\* file ends with the row of the session that saved last and holds the
\* previous count + 1 or + 2 rows; when it holds + 2, the row before the
\* last is the row of the session that saved first.
C9_LastSaverWins ==
    (\A s \in Sessions : sess[s].pc \in AfterSave) =>
        LET base == Len(file0.rows)
            n == Len(file.rows)
        IN /\ Len(added) = 2
           /\ n \in {base + 1, base + 2}
           /\ Table(file)[n]["date"] = added[2].form.d
           /\ Table(file)[n]["amount"] = added[2].form.amt
           /\ \A i \in 1..base : Table(file)[i] = Table(file0)[i]
           /\ n = base + 2 =>
                /\ Table(file)[n - 1]["date"] = added[1].form.d
                /\ Table(file)[n - 1]["amount"] = added[1].form.amt

C9_Witness ==
    /\ \A s \in Sessions : sess[s].pc \in AfterSave
    /\ Len(file0.rows) = 2
    /\ Len(file.rows) = 3
    /\ Len(added) = 2

\* C10: a run in which the add form is not submitted leaves an existing
\* expenses.csv as it is, and filter_df leaves the table passed to it as
\* load_data returned it.
C10_ViewNeverWrites ==
    [][\A s \in Sessions :
         /\ (sess'[s].pc # "idle" /\ ~sess'[s].submitted /\ file.exists) => file' = file
         /\ (sess[s].pc = "m_read" /\ sess'[s].pc = "done") =>
               /\ sess'[s].df_all = LoadFrom(file)
               /\ sess'[s].df_all.cols = <<"date", "category", "amount", "notes">>]_vars

C10_Witness ==
    /\ sess[Main].pc = "done"
    /\ ~sess[Main].submitted
    /\ sess[Main].fileAtStart.exists
    /\ file = sess[Main].fileAtStart
    /\ Len(sess[Main].df_all.rows) = 4
    /\ Len(sess[Main].df_filtered.rows) = 1

====
